---- MODULE Spec2Model ----
(***************************************************************************)
(* process-env-parser: the evaluation pass of parseEnvironmentVariables    *)
(* (src/dist/process-env-parser.js), one loop iteration per step.          *)
(*                                                                         *)
(* JavaScript strings read by the code character by character (raw         *)
(* environment values) are sequences of one-character strings; strings the *)
(* code only builds (printables, messages) are TLA+ strings.               *)
(***************************************************************************)
EXTENDS Integers, Sequences, FiniteSets, TLC

\* Largest number of configured names in a configuration.
MaxEntries == 2

\* The configured names, in the configuration's key order: entry k of a
\* configuration is the option object of Names[k].
Names == <<"A", "B", "C", "D">>

(***************************************************************************)
(* JavaScript values                                                       *)
(***************************************************************************)
StringValue(s) == [t |-> "string", s |-> s, n |-> 0]
NumberValue(n) == [t |-> "number", s |-> <<>>, n |-> n]
BooleanValue(b) == [t |-> "boolean", s |-> <<>>, n |-> IF b THEN 1 ELSE 0]
NullValue == [t |-> "null", s |-> <<>>, n |-> 0]
UndefinedValue == [t |-> "undefined", s |-> <<>>, n |-> 0]
ObjectValue == [t |-> "object", s |-> <<>>, n |-> 0]
FunctionValue == [t |-> "function", s |-> <<>>, n |-> 0]

\* The number NaN: falsy, and written NaN.
NaNValue == [t |-> "number", s |-> <<"N", "a", "N">>, n |-> 0]

\* typeof: null is an object.
TypeOf(variable) == IF variable.t = "null" THEN "object" ELSE variable.t

\* Truthiness of a value (ToBoolean).
Truthy(v) ==
    CASE v.t = "string" -> v.s # <<>>
      [] v.t = "number" -> v.n # 0
      [] v.t = "boolean" -> v.n = 1
      [] v.t \in {"null", "undefined"} -> FALSE
      [] OTHER -> TRUE

(***************************************************************************)
(* Objects: key/value pairs in insertion order                             *)
(***************************************************************************)
EmptyObject == <<>>

ObjectKeys(o) == [k \in 1..Len(o) |-> o[k].key]

KeySet(o) == {o[k].key : k \in 1..Len(o)}

HasKey(o, key) == key \in KeySet(o)

Get(o, key) == o[CHOOSE k \in 1..Len(o) : o[k].key = key].value

\* o[key] = value: overwrites in place, else appends.
Set(o, key, value) ==
    IF HasKey(o, key)
    THEN [k \in 1..Len(o) |-> IF o[k].key = key
                                THEN [key |-> key, value |-> value]
                                ELSE o[k]]
    ELSE Append(o, [key |-> key, value |-> value])

(***************************************************************************)
(* Strings                                                                 *)
(***************************************************************************)
WhiteSpace == {" ", "\t", "\n"}

Digits == <<"0", "1", "2", "3", "4", "5", "6", "7", "8", "9">>

IsDigit(c) == \E d \in 1..Len(Digits) : Digits[d] = c

DigitValue(c) == (CHOOSE d \in 1..Len(Digits) : Digits[d] = c) - 1

RECURSIVE TrimStart(_)
TrimStart(s) ==
    IF s # <<>> /\ Head(s) \in WhiteSpace THEN TrimStart(Tail(s)) ELSE s

RECURSIVE TrimEnd(_)
TrimEnd(s) ==
    IF s # <<>> /\ s[Len(s)] \in WhiteSpace
    THEN TrimEnd(SubSeq(s, 1, Len(s) - 1))
    ELSE s

\* String.prototype.trim
Trim(s) == TrimEnd(TrimStart(s))

\* JSON.stringify's escaping of one character of a string.
EscapeChar(c) ==
    CASE c = "\"" -> "\\\""
      [] c = "\\" -> "\\\\"
      [] c = "\t" -> "\\t"
      [] c = "\n" -> "\\n"
      [] OTHER -> c

RECURSIVE Escaped(_)
Escaped(s) == IF s = <<>> THEN "" ELSE EscapeChar(Head(s)) \o Escaped(Tail(s))

\* JSON.stringify of a string, number or boolean.
JSONStringify(variable) ==
    CASE variable.t = "string" -> "\"" \o Escaped(variable.s) \o "\""
      [] variable.t = "number" ->
             IF variable = NaNValue THEN "null" ELSE ToString(variable.n)
      [] variable.t = "boolean" -> IF variable.n = 1 THEN "true" ELSE "false"

(***************************************************************************)
(* Caller-supplied functions.  A call either returns a value or throws an  *)
(* Error carrying a message.                                               *)
(***************************************************************************)
Returned(value) == [threw |-> FALSE, message |-> "", value |-> value]

Threw(message) == [threw |-> TRUE, message |-> message, value |-> UndefinedValue]

\* parseInt on the characters of a string: leading white space is skipped,
\* then the leading digits are read; isNaN when there is none.
RECURSIVE LeadingDigits(_)
LeadingDigits(s) ==
    IF s # <<>> /\ IsDigit(Head(s))
    THEN <<Head(s)>> \o LeadingDigits(Tail(s))
    ELSE <<>>

RECURSIVE DecimalValue(_)
DecimalValue(d) ==
    IF d = <<>> THEN 0
    ELSE 10 * DecimalValue(SubSeq(d, 1, Len(d) - 1)) + DigitValue(d[Len(d)])

\* The parser functions a configuration names in its `parser` option:
\*   "number"   the README's parser: parseInt, throwing "Not a number" on NaN
\*   "parseInt" the tests' parser: parseInt itself, which returns NaN
\*   "identity" the parser createDefaultConfiguration builds
\*   "thrower"  the tests' parser that always throws Error("ERROR")
ParserCall(parser, value) ==
    CASE parser = "number" ->
             LET d == LeadingDigits(TrimStart(value))
             IN  IF d = <<>> THEN Threw("Not a number")
                 ELSE Returned(NumberValue(DecimalValue(d)))
      [] parser = "parseInt" ->
             LET d == LeadingDigits(TrimStart(value))
             IN  IF d = <<>> THEN Returned(NaNValue)
                 ELSE Returned(NumberValue(DecimalValue(d)))
      [] parser = "identity" -> Returned(StringValue(value))
      [] parser = "thrower" -> Threw("ERROR")

\* The values a configuration gives as its `mask` option: absent ("none"),
\* the booleans, and two functions:
\*   "redact"  returns a string value hiding every character of a string
\*   "thrower" the tests' mask that always throws Error("ERROR")
\* A mask that takes `true` for no mask at all.
MaskIsTruthyFunction(mask) == mask \notin {"none", "false", "true"}

MaskIsTruthy(mask) == mask \notin {"none", "false"}

MaskIsBoolean(mask) == mask \in {"true", "false"}

MaskCall(mask, value) ==
    CASE mask = "redact" ->
             IF value.t = "string"
             THEN Returned(StringValue([k \in 1..Len(value.s) |-> "*"]))
             ELSE Returned(StringValue(<<"*">>))
      [] mask = "thrower" -> Threw("ERROR")

(***************************************************************************)
(* toPrintable, toPrintableSafe                                            *)
(***************************************************************************)
toPrintable(variable) ==
    LET typeOf == TypeOf(variable)
    IN  IF typeOf \in {"string", "number", "boolean"} THEN JSONStringify(variable)
        ELSE IF variable = NullValue THEN "null"
        ELSE IF variable = UndefinedValue THEN "undefined"
        ELSE typeOf

\* Whether toPrintableSafe(value, mask) calls mask.
CallsMask(mask) == MaskIsTruthy(mask) /\ ~MaskIsBoolean(mask)

\* The string toPrintableSafe returns, or the Error mask(value) throws.
toPrintableSafe(value, mask) ==
    IF MaskIsTruthy(mask)
    THEN IF MaskIsBoolean(mask)
         THEN [threw |-> FALSE, message |-> "", text |-> "<masked>"]
         ELSE LET m == MaskCall(mask, value)
              IN  IF m.threw
                  THEN [threw |-> TRUE, message |-> m.message, text |-> ""]
                  ELSE [threw |-> FALSE, message |-> "",
                        text |-> "<masked: " \o toPrintable(m.value) \o ">"]
    ELSE [threw |-> FALSE, message |-> "", text |-> toPrintable(value)]

(***************************************************************************)
(* parseEnvironmentVariables                                               *)
(***************************************************************************)
VARIABLES
    configuration,    \* the argument: name -> option object, in key order
    environment,      \* process.env over the configured names
    i,                \* position of the loop in Object.keys(configuration)
    result,           \* local `result`
    printableResult,  \* local `printableResult`
    fail,             \* local `fail`
    pc,               \* "loop", "returned" (a result object was returned) or
                      \* "threw" (an exception left the function)
    returned,         \* the object returned
    thrown,           \* the message of the Error that left the function
    parserCalls,      \* the calls of config.parser made so far
    maskCalls         \* the calls of config.mask made so far

\* requireEnvironmentVariables
VARIABLES
    environmentVariables  \* the names passed to requireEnvironmentVariables;
                          \* empty when parseEnvironmentVariables is called
                          \* with a configuration of the caller's own

\* Combine.nonNullable
VARIABLES
    environmentVariableMapping,  \* the argument: name -> value, in key order
    keyIndex,         \* position of the loop in Object.keys(...) (`_i`)
    truthy,           \* local `truthy`
    output,           \* local `output`
    truthyKeys,       \* local `truthyKeys`
    falsyKeys,        \* local `falsyKeys`
    combinePc,        \* "idle" (not called), "loop", "returned" or "threw"
    combined,         \* the value returned: null, or the object `output`
    combineError      \* the message of the Error thrown

parseVars ==
    <<configuration, environment, i, result, printableResult, fail, pc,
      returned, thrown, parserCalls, maskCalls, environmentVariables>>

nonNullableVars ==
    <<environmentVariableMapping, keyIndex, truthy, output, truthyKeys,
      falsyKeys, combinePc, combined, combineError>>

\* The function Mask.url(...maskedFields) returns
VARIABLES
    maskedFields,     \* the components given to Mask.url
    url,              \* the argument: a string, or a reference to a URL object
    objects,          \* the URL objects: the caller's and the one created
    u,                \* local `u`: a reference to a URL object
    portString,       \* local `portString`
    fieldIndex,       \* position of the loop in maskedFields (`_i`)
    urlString,        \* local `urlString`, returned in the end
    urlPc             \* "idle" (not called), "copy", "loop" or "returned"

urlVars ==
    <<maskedFields, url, objects, u, portString, fieldIndex, urlString, urlPc>>

\* Formatter
VARIABLES
    formatterResult,  \* the argument `result`: an object with envPrintable
    formatted,        \* the strings oneliner and multiLine returned
    formatterPc       \* "idle" (not called), "call" or "returned"

formatterVars == <<formatterResult, formatted, formatterPc>>

vars == <<parseVars, nonNullableVars, urlVars, formatterVars>>

\* process.env[variable]: undefined, or a string.
Unset == [set |-> FALSE, s |-> <<>>]

Raw(s) == [set |-> TRUE, s |-> s]

\* The check as it was before blank values were taken for unset ones.
IsPresentUntrimmed(value) == value.set

\* value !== undefined && value.trim() !== ""
IsPresent(value) == value.set /\ Trim(value.s) # <<>>

\* An option object: `parser` and `mask` name the function or value given
\* ("none": the property is absent); hasDefault is
\* config.hasOwnProperty("default"), and config.default reads undefined when
\* the property is absent.
Options(parser, hasDefault, default, mask) ==
    [parser |-> parser, hasDefault |-> hasDefault,
     default |-> IF hasDefault THEN default ELSE UndefinedValue, mask |-> mask]

\* A presence check by truthiness of the default instead of by the property.
HasTruthyDefault(config) == Truthy(config.default)

\* config.hasOwnProperty("default")
HasDefault(config) == config.hasDefault

\* A default passed through the parser like a raw value.
ParsedDefault(config) ==
    IF config.parser # "none" /\ config.default.t = "string"
    THEN ParserCall(config.parser, config.default.s).value
    ELSE config.default

\* A default replaced by what the entry's mask function makes of it.
MaskedDefault(config) ==
    IF config.mask = "redact"
    THEN MaskCall(config.mask, config.default).value
    ELSE config.default

\* config.default, as assigned to result[variable]
DefaultValue(config) == config.default

NoThrow == [threw |-> FALSE, message |-> ""]

\* var result = {}; var printableResult = {}; var fail = false;
InitialLocals ==
    [result |-> EmptyObject, printableResult |-> EmptyObject, fail |-> FALSE,
     parserCalls |-> <<>>, maskCalls |-> <<>>, thrown |-> NoThrow]

\* The locals one loop iteration reads and writes.
Locals ==
    [result |-> result, printableResult |-> printableResult, fail |-> fail,
     parserCalls |-> parserCalls, maskCalls |-> maskCalls, thrown |-> NoThrow]

Call(variable, argument) == [variable |-> variable, argument |-> argument]

\* The value of the variable without its surrounding white space.
TrimmedValue(value) == Trim(value.s)

\* The string `value` of the present branch: process.env[variable] itself.
EnvValue(value) == value.s

\* The loop body when the variable is set and not blank.
PresentBranch(st, variable, config, value) ==
    LET parsed == IF config.parser # "none"
                  THEN ParserCall(config.parser, EnvValue(value))
                  ELSE Returned(StringValue(EnvValue(value)))
        afterParser ==
            [st EXCEPT
               !.parserCalls = IF config.parser # "none"
                               THEN Append(@, Call(variable, EnvValue(value)))
                               ELSE @,
               !.result = IF parsed.threw THEN @
                          ELSE Set(@, variable, parsed.value),
               !.printableResult =
                   IF parsed.threw
                   THEN Set(@, variable, "<parser: \"" \o parsed.message \o "\">")
                   ELSE @,
               !.fail = IF parsed.threw THEN TRUE ELSE @]
    IN  IF afterParser.fail
        THEN afterParser
        ELSE LET resolved == Get(afterParser.result, variable)
                 printable == toPrintableSafe(resolved, config.mask)
             IN  [afterParser EXCEPT
                    !.maskCalls = IF CallsMask(config.mask)
                                  THEN Append(@, Call(variable, resolved))
                                  ELSE @,
                    !.printableResult =
                        IF printable.threw
                        THEN Set(@, variable,
                                 "<mask: \"" \o printable.message \o "\">")
                        ELSE Set(@, variable, printable.text),
                    !.fail = IF printable.threw THEN TRUE ELSE @]

\* A default rendered like a value read from the environment.
NoSuffix == ""

\* The suffix of the printable of a value that came from the default.
DefaultSuffix == " (default)"

\* The loop body when the variable is unset or blank.
AbsentBranch(st, variable, config) ==
    IF HasDefault(config)
    THEN LET value == DefaultValue(config)
             printable == toPrintableSafe(value, config.mask)
         IN  [st EXCEPT
                !.result = Set(@, variable, value),
                !.maskCalls = IF CallsMask(config.mask)
                              THEN Append(@, Call(variable, value))
                              ELSE @,
                !.printableResult =
                    IF printable.threw THEN @
                    ELSE Set(@, variable, printable.text \o DefaultSuffix),
                !.thrown = IF printable.threw
                           THEN [threw |-> TRUE, message |-> printable.message]
                           ELSE @]
    ELSE [st EXCEPT
            !.printableResult = Set(@, variable, "<missing>"),
            !.fail = TRUE]

\* One iteration of the loop over Object.keys(configuration).
LoopBody(st, variable, config, value) ==
    IF IsPresent(value)
    THEN PresentBranch(st, variable, config, value)
    ELSE AbsentBranch(st, variable, config)

NoResult ==
    [success |-> FALSE, hasEnv |-> FALSE, env |-> EmptyObject,
     envPrintable |-> EmptyObject]

\* A return statement that exposes env on failure too.
ResultObjectWithEnv(st) ==
    [success |-> ~st.fail, hasEnv |-> TRUE, env |-> st.result,
     envPrintable |-> st.printableResult]

\* The return statement.
ResultObject(st) ==
    IF st.fail
    THEN [success |-> FALSE, hasEnv |-> FALSE, env |-> EmptyObject,
          envPrintable |-> st.printableResult]
    ELSE [success |-> TRUE, hasEnv |-> TRUE, env |-> st.result,
          envPrintable |-> st.printableResult]

(***************************************************************************)
(* The configurations and environments explored                            *)
(***************************************************************************)
PresentRaws == {Raw(<<"7">>), Raw(<<" ", "a", " ">>)}

BlankRaws == {Raw(<<>>), Raw(<<" ">>)}

\* The `default` property of an option object: absent, or present with a value.
NoDefault == [has |-> FALSE, value |-> UndefinedValue]

Default(value) == [has |-> TRUE, value |-> value]

Defaults ==
    {NoDefault, Default(UndefinedValue), Default(NullValue),
     Default(StringValue(<<"x">>))}

FalsyDefaults ==
    {Default(BooleanValue(FALSE)), Default(NumberValue(0)),
     Default(StringValue(<<>>))}

\* One configured name: its option object and its value in process.env.
Case(value, config) == [value |-> value, config |-> config]

\* Every option is combined with every other one where the branch the entry
\* takes reads it; the options a branch ignores take two values there.
Cases ==
    {Case(c[1], Options(c[2], c[3].has, c[3].value, c[4])) :
        c \in (PresentRaws \X {"none", "number"} \X {NoDefault}
                  \X {"none", "true", "redact", "thrower"})
              \cup ({Raw(<<"7">>)} \X {"none", "number"}
                  \X {Default(StringValue(<<"x">>))} \X {"none", "thrower"})
              \cup ({Unset} \X {"none"} \X Defaults
                  \X {"none", "true", "redact", "thrower"})
              \cup ({Unset} \X {"none"} \X FalsyDefaults \X {"none"})
              \cup ({Raw(<<"7">>), Unset} \X {"none"}
                  \X {Default(StringValue(<<"x">>))} \X {"false"})
              \cup ({Raw(<<" ", "a", " ">>)} \X {"parseInt"} \X {NoDefault}
                  \X {"none"})
              \cup (({Unset} \cup BlankRaws) \X {"number"}
                  \X {NoDefault, Default(StringValue(<<"x">>))}
                  \X {"none", "thrower"})}

\* The value nonNullable returns: null, or an object.
Null == [isNull |-> TRUE, object |-> EmptyObject]

Object(o) == [isNull |-> FALSE, object |-> o]

\* The locals of parseEnvironmentVariables when it is entered.
Entered ==
    /\ i = 1
    /\ result = EmptyObject
    /\ printableResult = EmptyObject
    /\ fail = FALSE
    /\ pc = "loop"
    /\ returned = NoResult
    /\ thrown = ""
    /\ parserCalls = <<>>
    /\ maskCalls = <<>>

\* nonNullable is not called.
NonNullableIdle ==
    /\ environmentVariableMapping = EmptyObject
    /\ keyIndex = 1
    /\ truthy = FALSE
    /\ output = EmptyObject
    /\ truthyKeys = <<>>
    /\ falsyKeys = <<>>
    /\ combinePc = "idle"
    /\ combined = Null
    /\ combineError = ""

\* A URL object: the components its getters return.
NoUrl ==
    [protocol |-> "", username |-> "", password |-> "", hostname |-> "",
     port |-> "", pathname |-> "", search |-> "", hash |-> ""]

\* The function Mask.url returns is not called.
UrlIdle ==
    /\ maskedFields = <<>>
    /\ url = [isString |-> TRUE, string |-> "", object |-> "none"]
    /\ objects = [input |-> NoUrl, copy |-> NoUrl]
    /\ u = "none"
    /\ portString = ""
    /\ fieldIndex = 1
    /\ urlString = ""
    /\ urlPc = "idle"

\* Neither formatter is called.
FormatterIdle ==
    /\ formatterResult = [envPrintable |-> EmptyObject]
    /\ formatted = [oneliner |-> "", multiLine |-> ""]
    /\ formatterPc = "idle"

Init ==
    \E n \in 0..MaxEntries :
      \E c \in [1..n -> Cases] :
        /\ configuration = [k \in 1..n |-> [key |-> Names[k], value |-> c[k].config]]
        /\ environment = [name \in {Names[k] : k \in 1..n} |->
                            c[CHOOSE k \in 1..n : Names[k] = name].value]
        /\ environmentVariables = <<>>
        /\ Entered
        /\ NonNullableIdle
        /\ UrlIdle
        /\ FormatterIdle

\* for (variable of variables) { ... }: one iteration.
Iterate ==
    /\ pc = "loop"
    /\ i <= Len(ObjectKeys(configuration))
    /\ LET variable == ObjectKeys(configuration)[i]
           value == environment[variable]
           config == Get(configuration, variable)
           st == LoopBody(Locals, variable, config, value)
       IN  /\ result' = st.result
           /\ printableResult' = st.printableResult
           /\ fail' = st.fail
           /\ parserCalls' = st.parserCalls
           /\ maskCalls' = st.maskCalls
           /\ pc' = IF st.thrown.threw THEN "threw" ELSE "loop"
           /\ thrown' = IF st.thrown.threw THEN st.thrown.message ELSE thrown
    /\ i' = i + 1
    /\ UNCHANGED <<configuration, environment, returned, environmentVariables,
                   nonNullableVars, urlVars,
                   formatterVars>>

\* if (fail) return {...} else return {...}
Return ==
    /\ pc = "loop"
    /\ i > Len(ObjectKeys(configuration))
    /\ returned' = ResultObject(Locals)
    /\ pc' = "returned"
    /\ UNCHANGED <<configuration, environment, i, result, printableResult,
                   fail, thrown, parserCalls, maskCalls, environmentVariables,
                   nonNullableVars, urlVars,
                   formatterVars>>

Next == Iterate \/ Return

\* The whole call as a function of its inputs: the loop from entry k on, then
\* the return statement, or the exception that leaves it.
RECURSIVE LoopFrom(_, _, _, _)
LoopFrom(st, k, conf, env) ==
    IF k > Len(ObjectKeys(conf)) \/ st.thrown.threw
    THEN st
    ELSE LET variable == ObjectKeys(conf)[k]
         IN  LoopFrom(LoopBody(st, variable, Get(conf, variable), env[variable]),
                      k + 1, conf, env)

parseEnvironmentVariables(conf, env) ==
    LET st == LoopFrom(InitialLocals, 1, conf, env)
    IN  [threw |-> st.thrown.threw,
         message |-> st.thrown.message,
         returned |-> IF st.thrown.threw THEN NoResult ELSE ResultObject(st),
         parserCalls |-> st.parserCalls,
         maskCalls |-> st.maskCalls]

Spec == Init /\ [][Next]_vars

(***************************************************************************)
(* requireEnvironmentVariables                                             *)
(***************************************************************************)
MaxNames == 2

RequiredNames == {"A", "B", "C"}

\* The values a required variable has in process.env.
RequiredRaws == {Unset} \cup BlankRaws \cup PresentRaws

\* An option object that also gives the empty string as default.
OptionalString == Options("identity", TRUE, StringValue(<<>>), "none")

\* { parser: function (value) { return value; } }
IdentityParser == Options("identity", FALSE, UndefinedValue, "none")

\* A configuration whose entries all fall back on the empty string.
RECURSIVE createOptionalConfiguration(_)
createOptionalConfiguration(names) ==
    IF names = <<>> THEN EmptyObject
    ELSE Set(createOptionalConfiguration(SubSeq(names, 1, Len(names) - 1)),
             names[Len(names)], OptionalString)

\* result[environmentVariableName] = parser, for each name in turn.
RECURSIVE createDefaultConfiguration(_)
createDefaultConfiguration(names) ==
    IF names = <<>> THEN EmptyObject
    ELSE Set(createDefaultConfiguration(SubSeq(names, 1, Len(names) - 1)),
             names[Len(names)], IdentityParser)

\* requireEnvironmentVariables(...names): the configuration is built and
\* parseEnvironmentVariables is entered with it.
InitRequire ==
    \E n \in 0..MaxNames :
      \E names \in [1..n -> RequiredNames] :
        \E env \in [{names[k] : k \in 1..n} -> RequiredRaws] :
          /\ environmentVariables = names
          /\ configuration = createDefaultConfiguration(names)
          /\ environment = env
          /\ Entered
          /\ NonNullableIdle
          /\ UrlIdle
          /\ FormatterIdle

SpecRequire == InitRequire /\ [][Next]_vars

(***************************************************************************)
(* Combine.nonNullable                                                     *)
(***************************************************************************)
MaxKeys == 3

\* The values of the mapping: null, undefined, and real values, falsy ones
\* among them.
CombineValues ==
    {NullValue, UndefinedValue, StringValue(<<"a">>), StringValue(<<>>),
     NumberValue(0), BooleanValue(FALSE), ObjectValue}

\* parseEnvironmentVariables is not called.
ParseIdle ==
    /\ configuration = EmptyObject
    /\ environment = <<>>
    /\ environmentVariables = <<>>
    /\ i = 1
    /\ result = EmptyObject
    /\ printableResult = EmptyObject
    /\ fail = FALSE
    /\ pc = "idle"
    /\ returned = NoResult
    /\ thrown = ""
    /\ parserCalls = <<>>
    /\ maskCalls = <<>>

InitNonNullable ==
    \E n \in 0..MaxKeys :
      \E values \in [1..n -> CombineValues] :
        /\ environmentVariableMapping =
             [k \in 1..n |-> [key |-> Names[k], value |-> values[k]]]
        /\ keyIndex = 1
        /\ truthy = FALSE
        /\ output = EmptyObject
        /\ truthyKeys = <<>>
        /\ falsyKeys = <<>>
        /\ combinePc = "loop"
        /\ combined = Null
        /\ combineError = ""
        /\ ParseIdle
        /\ UrlIdle
        /\ FormatterIdle

\* keys.join(", ")
RECURSIVE Join(_)
Join(keys) ==
    IF keys = <<>> THEN ""
    ELSE IF Len(keys) = 1 THEN keys[1]
    ELSE keys[1] \o ", " \o Join(Tail(keys))

\* A test of the value by its truthiness.
IsTruthyValue(value) == Truthy(value)

\* value !== undefined && value !== null
IsReal(value) == value # UndefinedValue /\ value # NullValue

\* A return of the object `output` even when it is empty.
ReturnedOutput(isTruthy, out) == Object(out)

\* return truthy ? output : null
ReturnedValue(isTruthy, out) == IF isTruthy THEN Object(out) ELSE Null

\* for (key of keys) { ... }: one iteration.
NonNullableIterate ==
    /\ combinePc = "loop"
    /\ keyIndex <= Len(ObjectKeys(environmentVariableMapping))
    /\ LET key == ObjectKeys(environmentVariableMapping)[keyIndex]
           value == Get(environmentVariableMapping, key)
       IN  IF IsReal(value)
           THEN /\ truthy' = TRUE
                /\ truthyKeys' = Append(truthyKeys, key)
                /\ output' = Set(output, key, value)
                /\ UNCHANGED falsyKeys
           ELSE IF truthy
           THEN /\ falsyKeys' = Append(falsyKeys, key)
                /\ UNCHANGED <<truthy, truthyKeys, output>>
           ELSE UNCHANGED <<truthy, truthyKeys, output, falsyKeys>>
    /\ keyIndex' = keyIndex + 1
    /\ UNCHANGED <<environmentVariableMapping, combinePc, combined,
                   combineError, parseVars, urlVars, formatterVars>>

\* if (truthyKeys.length > 0 && falsyKeys.length > 0) throw ...;
\* return truthy ? output : null;
NonNullableReturn ==
    /\ combinePc = "loop"
    /\ keyIndex > Len(ObjectKeys(environmentVariableMapping))
    /\ IF Len(truthyKeys) > 0 /\ Len(falsyKeys) > 0
       THEN /\ combinePc' = "threw"
            /\ combineError' = "Mix of non-nullable (" \o Join(truthyKeys)
                                  \o ") and nullable (" \o Join(falsyKeys)
                                  \o ") values"
            /\ UNCHANGED combined
       ELSE /\ combinePc' = "returned"
            /\ combined' = ReturnedValue(truthy, output)
            /\ UNCHANGED combineError
    /\ UNCHANGED <<environmentVariableMapping, keyIndex, truthy, output,
                   truthyKeys, falsyKeys, parseVars, urlVars, formatterVars>>

NextNonNullable == NonNullableIterate \/ NonNullableReturn

SpecNonNullable == InitNonNullable /\ [][NextNonNullable]_vars

(***************************************************************************)
(* Mask.url                                                                *)
(***************************************************************************)
MaxMasked == 2

\* The valid URL parts, and the order arguments are listed in.
UrlFields ==
    <<"hash", "hostname", "password", "pathname", "port", "protocol",
      "search", "username">>

\* The first position at or after `from` where the pattern stands, or 0.
RECURSIVE IndexOf(_, _, _)
IndexOf(s, pattern, from) ==
    IF from + Len(pattern) - 1 > Len(s) THEN 0
    ELSE IF SubSeq(s, from, from + Len(pattern) - 1) = pattern THEN from
    ELSE IndexOf(s, pattern, from + 1)

\* The part of the string before position p, all of it when p = 0.
Before(s, p) == IF p = 0 THEN s ELSE SubSeq(s, 1, p - 1)

\* The part of the string from position p on, none of it when p = 0.
From(s, p) == IF p = 0 THEN "" ELSE SubSeq(s, p, Len(s))

\* String.prototype.replace(pattern, replacement) with a string pattern: the
\* first occurrence only.
Replace(s, pattern, replacement) ==
    LET p == IndexOf(s, pattern, 1)
    IN  IF p = 0 THEN s
        ELSE Before(s, p) \o replacement \o From(s, p + Len(pattern))

\* The components of scheme://userinfo@host:port/path?query#fragment, as
\* written.
Components(s) ==
    LET colon == IndexOf(s, "://", 1)
        rest == From(s, colon + 3)
        hashAt == IndexOf(rest, "#", 1)
        beforeHash == Before(rest, hashAt)
        searchAt == IndexOf(beforeHash, "?", 1)
        beforeSearch == Before(beforeHash, searchAt)
        pathAt == IndexOf(beforeSearch, "/", 1)
        authority == Before(beforeSearch, pathAt)
        at == IndexOf(authority, "@", 1)
        userinfo == IF at = 0 THEN "" ELSE Before(authority, at)
        hostport == IF at = 0 THEN authority ELSE From(authority, at + 1)
        passwordAt == IndexOf(userinfo, ":", 1)
        portAt == IndexOf(hostport, ":", 1)
    IN  [protocol |-> Before(s, colon) \o ":",
         username |-> Before(userinfo, passwordAt),
         password |-> IF passwordAt = 0 THEN "" ELSE From(userinfo, passwordAt + 1),
         hostname |-> Before(hostport, portAt),
         port |-> IF portAt = 0 THEN "" ELSE From(hostport, portAt + 1),
         pathname |-> From(beforeSearch, pathAt),
         search |-> From(beforeHash, searchAt),
         hash |-> From(rest, hashAt)]

\* The schemes whose URLs always have a path, with their default ports.
SpecialSchemes == {"http:"}

DefaultPort(protocol) == IF protocol = "http:" THEN "80" ELSE ""

\* new URL(s): the default port is dropped, and the empty path of a special
\* scheme becomes "/".
URL(s) ==
    LET c == Components(s)
    IN  [c EXCEPT
           !.port = IF @ = DefaultPort(c.protocol) THEN "" ELSE @,
           !.pathname = IF @ = "" /\ c.protocol \in SpecialSchemes THEN "/" ELSE @]

\* URL.prototype.toString()
toString(o) ==
    o.protocol \o "//"
       \o (IF o.username # "" \/ o.password # ""
           THEN o.username
                   \o (IF o.password # "" THEN ":" \o o.password ELSE "")
                   \o "@"
           ELSE "")
       \o o.hostname
       \o (IF o.port # "" THEN ":" \o o.port ELSE "")
       \o o.pathname \o o.search \o o.hash

Alpha ==
    {"a", "b", "c", "d", "e", "f", "g", "h", "i", "j", "k", "l", "m", "n",
     "o", "p", "q", "r", "s", "t", "u", "v", "w", "x", "y", "z"}

\* o[field] = value, for a value without characters to encode: a scheme must
\* start with a letter or the assignment does nothing; a path, a query and a
\* fragment get their delimiter.
SetField(o, field, value) ==
    CASE field = "protocol" ->
             IF SubSeq(value, 1, 1) \in Alpha
             THEN [o EXCEPT !.protocol = value \o ":"]
             ELSE o
      [] field = "pathname" ->
             [o EXCEPT !.pathname = IF SubSeq(value, 1, 1) = "/" THEN value
                                    ELSE "/" \o value]
      [] field = "search" -> [o EXCEPT !.search = "?" \o value]
      [] field = "hash" -> [o EXCEPT !.hash = "#" \o value]
      [] OTHER -> [o EXCEPT ![field] = value]

\* var mask = "*****";
urlMask == "*****"

\* The URLs given to the function: scheme, credentials, port, path, query and
\* fragment as the caller writes them.
WrittenSchemes == {"http", "postgre"}

WrittenUserinfos == {"", "user@", "user:pass@", "user:8080@"}

WrittenPorts == {"", ":80", ":8080"}

WrittenPaths == {"", "/", "/db"}

WrittenTails == {"", "?q=1", "#h", "?q=1#h"}

Written ==
    {w[1] \o "://" \o w[2] \o "localhost" \o w[3] \o w[4] \o w[5] :
        w \in WrittenSchemes \X WrittenUserinfos \X WrittenPorts
                 \X WrittenPaths \X WrittenTails}

\* The fields at the chosen positions of UrlFields, in that order.
RECURSIVE Chosen(_, _)
Chosen(positions, k) ==
    IF k > Len(UrlFields) THEN <<>>
    ELSE (IF k \in positions THEN <<UrlFields[k]>> ELSE <<>>)
            \o Chosen(positions, k + 1)

\* The argument lists of Mask.url: up to MaxMasked fields, or all of them.
MaskedFieldLists ==
    {Chosen(positions, 1) :
        positions \in {q \in SUBSET (1..Len(UrlFields)) :
                          Cardinality(q) <= MaxMasked
                             \/ Cardinality(q) = Len(UrlFields)}}

\* The object the function works on is the caller's own.
CallersObject == "input"

\* new URL(...): a new object.
NewObject == "copy"

\* Mask.url(...fields) is called, then the function it returns, with a string
\* or with a URL object the caller made of one.
InitUrl ==
    \E fields \in MaskedFieldLists, written \in Written, isString \in BOOLEAN :
        /\ maskedFields = fields
        /\ url = IF isString
                 THEN [isString |-> TRUE, string |-> written, object |-> "none"]
                 ELSE [isString |-> FALSE, string |-> "", object |-> "input"]
        /\ objects = [input |-> IF isString THEN NoUrl ELSE URL(written),
                      copy |-> NoUrl]
        /\ u = "none"
        /\ portString = ""
        /\ fieldIndex = 1
        /\ urlString = ""
        /\ urlPc = "copy"
        /\ ParseIdle
        /\ NonNullableIdle
        /\ FormatterIdle

\* var u = new URL(typeof url === "string" ? url : url.toString());
\* var portString = ":" + u.port;
Copy ==
    /\ urlPc = "copy"
    /\ LET created == URL(IF url.isString THEN url.string
                          ELSE toString(objects[url.object]))
       IN  /\ objects' = [objects EXCEPT ![NewObject] = created]
           /\ u' = NewObject
           /\ portString' = ":" \o created.port
    /\ urlPc' = "loop"
    /\ UNCHANGED <<maskedFields, url, fieldIndex, urlString, parseVars,
                   nonNullableVars, formatterVars>>

\* A loop that passes over the port only.
IsPort(o, field) == field = "port"

\* (field === "pathname" && u["pathname"] === "/") || field === "port"
Skipped(o, field) == (field = "pathname" /\ o.pathname = "/") \/ field = "port"

\* A test that lets every component through.
Always(o, field) == TRUE

\* if (u[field])
HasField(o, field) == o[field] # ""

\* for (field of maskedFields) { ... }: one iteration.
MaskField ==
    /\ urlPc = "loop"
    /\ fieldIndex <= Len(maskedFields)
    /\ LET field == maskedFields[fieldIndex]
       IN  IF Skipped(objects[u], field)
           THEN UNCHANGED objects
           ELSE IF HasField(objects[u], field)
           THEN objects' = [objects EXCEPT ![u] = SetField(@, field, urlMask)]
           ELSE UNCHANGED objects
    /\ fieldIndex' = fieldIndex + 1
    /\ UNCHANGED <<maskedFields, url, u, portString, urlString, urlPc,
                   parseVars, nonNullableVars, formatterVars>>

\* maskedFields.includes(field)
Includes(fields, field) == \E k \in 1..Len(fields) : fields[k] = field

\* urlString.replace(/^[^:]+:\/\//, mask + "://")
ReplaceProtocol(s) ==
    LET colon == IndexOf(s, ":", 1)
    IN  IF colon > 1 /\ SubSeq(s, colon, colon + 2) = "://"
        THEN urlMask \o From(s, colon)
        ELSE s

\* var urlString = u.toString(); the replacements of port and protocol;
\* return urlString;
ReturnUrlString ==
    /\ urlPc = "loop"
    /\ fieldIndex > Len(maskedFields)
    /\ LET serialized == toString(objects[u])
           portMasked ==
               IF Includes(maskedFields, "port") /\ objects[u].port # ""
               THEN Replace(serialized, portString, ":" \o urlMask)
               ELSE serialized
       IN  urlString' = IF Includes(maskedFields, "protocol")
                        THEN ReplaceProtocol(portMasked)
                        ELSE portMasked
    /\ urlPc' = "returned"
    /\ UNCHANGED <<maskedFields, url, objects, u, portString, fieldIndex,
                   parseVars, nonNullableVars, formatterVars>>

NextUrl == Copy \/ MaskField \/ ReturnUrlString

SpecUrl == InitUrl /\ [][NextUrl]_vars

(***************************************************************************)
(* Formatter                                                               *)
(***************************************************************************)
MaxPrintables == 3

\* The printable values of the mappings given to the formatters.
Printables == {"\"a\"", "7", "<masked>", "<missing>", "\"x\" (default)"}

\* strings.join(separator)
RECURSIVE JoinWith(_, _)
JoinWith(strings, separator) ==
    IF strings = <<>> THEN ""
    ELSE IF Len(strings) = 1 THEN strings[1]
    ELSE strings[1] \o separator \o JoinWith(Tail(strings), separator)

\* Object.entries(result.envPrintable).map(...).join(entrySeparator)
keyValueFormatter(formatterArgument, assignmentSeparator, entrySeparator) ==
    LET entries == formatterArgument.envPrintable
    IN  JoinWith([k \in 1..Len(entries) |->
                     entries[k].key \o assignmentSeparator \o entries[k].value],
                 entrySeparator)

\* A one-liner with the assignment of the multi-line form.
onelinerSpaced(formatterArgument) ==
    keyValueFormatter(formatterArgument, " = ", ", ")

oneliner(formatterArgument) == keyValueFormatter(formatterArgument, "=", ", ")

multiLine(formatterArgument) == keyValueFormatter(formatterArgument, " = ", "\n")

InitFormatter ==
    \E n \in 0..MaxPrintables :
      \E values \in [1..n -> Printables] :
        /\ formatterResult =
             [envPrintable |-> [k \in 1..n |-> [key |-> Names[k], value |-> values[k]]]]
        /\ formatted = [oneliner |-> "", multiLine |-> ""]
        /\ formatterPc = "call"
        /\ ParseIdle
        /\ NonNullableIdle
        /\ UrlIdle

\* Formatter.oneliner(result) and Formatter.multiLine(result)
Format ==
    /\ formatterPc = "call"
    /\ formatted' = [oneliner |-> oneliner(formatterResult),
                     multiLine |-> multiLine(formatterResult)]
    /\ formatterPc' = "returned"
    /\ UNCHANGED <<formatterResult, parseVars, nonNullableVars, urlVars>>

NextFormatter == Format

SpecFormatter == InitFormatter /\ [][NextFormatter]_vars

(***************************************************************************)
(* What the claims speak of, stated on the inputs of the call              *)
(***************************************************************************)
ConfiguredNames == KeySet(configuration)

Position(name) == CHOOSE k \in 1..Len(configuration) : configuration[k].key = name

OptionsOf(name) == Get(configuration, name)

\* The empty string, or white space only.
Blank(value) == value.set /\ \A k \in 1..Len(value.s) : value.s[k] \in WhiteSpace

AbsentOrBlank(name) == ~environment[name].set \/ Blank(environment[name])

Present(name) == ~AbsentOrBlank(name)

ParserOutcome(name) ==
    IF OptionsOf(name).parser = "none"
    THEN Returned(StringValue(environment[name].s))
    ELSE ParserCall(OptionsOf(name).parser, environment[name].s)

ParserThrows(name) == Present(name) /\ ParserOutcome(name).threw

Missing(name) == AbsentOrBlank(name) /\ ~OptionsOf(name).hasDefault

UsesDefault(name) == AbsentOrBlank(name) /\ OptionsOf(name).hasDefault

IsMaskFunction(mask) == mask \in {"redact", "thrower"}

\* The value of an entry that is neither missing nor has a throwing parser.
ResolvedValue(name) ==
    IF Present(name) THEN ParserOutcome(name).value ELSE OptionsOf(name).default

\* The entry's mask is a function that throws on the entry's value.
MaskThrows(name) ==
    /\ ~Missing(name)
    /\ ~ParserThrows(name)
    /\ IsMaskFunction(OptionsOf(name).mask)
    /\ MaskCall(OptionsOf(name).mask, ResolvedValue(name)).threw

EntryFails(name) == Missing(name) \/ ParserThrows(name) \/ MaskThrows(name)

\* The call is over: it returned an object or an exception left it.
Done == pc \in {"returned", "threw"}

\* The loop is past the entry.
Processed(name) == Position(name) < i

\* The entry the loop is about to evaluate.
AtEntry(name) == pc = "loop" /\ i = Position(name)

(***************************************************************************)
(* C1..C10                                                                 *)
(***************************************************************************)

\* C1: the envPrintable mapping a call returns has exactly the configured
\* names as its keys, each once, on Success and on Failure.
C1_PrintableHasEveryName ==
    pc = "returned" =>
        /\ KeySet(returned.envPrintable) = ConfiguredNames
        /\ Len(returned.envPrintable) = Cardinality(ConfiguredNames)

\* C2: an entry that is present with a succeeding parser and mask has, in the
\* returned envPrintable, the rendering its own options and raw value give
\* it (the one it gets when evaluated alone), whatever the other entries do.
C2_EntriesIndependent ==
    pc = "returned" =>
        \A name \in ConfiguredNames :
            (Present(name) /\ ~EntryFails(name)) =>
                /\ HasKey(returned.envPrintable, name)
                /\ Get(returned.envPrintable, name) =
                     Get(LoopBody(InitialLocals, name, OptionsOf(name),
                                  environment[name]).printableResult, name)

\* C3: every call returns, with success: true iff no entry failed (none is
\* missing without default, has a throwing parser or a throwing mask).
C3_SuccessIffNoEntryFails ==
    Done =>
        /\ pc = "returned"
        /\ returned.success <=> (\A name \in ConfiguredNames : ~EntryFails(name))

\* C4: no exception of a parser or mask function leaves the call; a mask
\* function that throws on a default is that entry's failure, rendered with
\* the fixed template.
C4_NoExceptionLeavesThePass ==
    /\ pc # "threw"
    /\ pc = "returned" =>
         \A name \in ConfiguredNames :
             (UsesDefault(name) /\ MaskThrows(name)) =>
                 /\ ~returned.success
                 /\ HasKey(returned.envPrintable, name)
                 /\ Get(returned.envPrintable, name) = "<mask: \"ERROR\">"

\* Whether the call log holds a call made for the entry.
Invoked(calls, name) == \E c \in 1..Len(calls) : calls[c].variable = name

\* C5: when the parser of entry X has thrown on a present raw value, the
\* result is Failure, envPrintable[X] is <parser: "message">, and the mask of
\* X is not invoked.
C5_ParserErrorRendered ==
    Done =>
        \A name \in ConfiguredNames :
            (ParserThrows(name) /\ Invoked(parserCalls, name)) =>
                /\ pc = "returned"
                /\ ~returned.success
                /\ HasKey(returned.envPrintable, name)
                /\ Get(returned.envPrintable, name) =
                     "<parser: \"" \o ParserOutcome(name).message \o "\">"
                /\ ~Invoked(maskCalls, name)

\* C6: when an entry is present, its parser succeeded and its mask function
\* has thrown, the result is Failure and the entry's printable is
\* <mask: "message">.
C6_MaskErrorRendered ==
    Done =>
        \A name \in ConfiguredNames :
            (Present(name) /\ MaskThrows(name) /\ Invoked(maskCalls, name)) =>
                /\ pc = "returned"
                /\ ~returned.success
                /\ HasKey(returned.envPrintable, name)
                /\ Get(returned.envPrintable, name) =
                     "<mask: \""
                        \o MaskCall(OptionsOf(name).mask, ResolvedValue(name)).message
                        \o "\">"

\* C7: when an entry's raw value is absent or blank and it has no default,
\* its printable is <missing> and the result is Failure.
C7_MissingRendered ==
    Done =>
        \A name \in ConfiguredNames :
            Missing(name) =>
                /\ pc = "returned"
                /\ ~returned.success
                /\ HasKey(returned.envPrintable, name)
                /\ Get(returned.envPrintable, name) = "<missing>"

\* process.env with every blank value unset.
Unblanked(env) ==
    [name \in DOMAIN env |-> IF Blank(env[name]) THEN Unset ELSE env[name]]

\* C8: a call ends as the call with every empty or white-space-only value
\* unset ends (same exception, or same success flag, env and envPrintable),
\* and no parser is invoked on such a value.
C8_BlankIsUnset ==
    Done =>
        LET unset == parseEnvironmentVariables(configuration, Unblanked(environment))
        IN  /\ (pc = "threw") = unset.threw
            /\ thrown = unset.message
            /\ returned = unset.returned
            /\ \A c \in 1..Len(parserCalls) :
                   ~Blank(environment[parserCalls[c].variable])

\* A call returned on an environment holding an empty and a white-space-only
\* value, for entries that have a parser.
C8_Witness ==
    /\ pc = "returned"
    /\ \E a, b \in ConfiguredNames :
         /\ environment[a] = Raw(<<>>)
         /\ environment[b] = Raw(<<" ">>)
         /\ OptionsOf(a).parser # "none"
         /\ OptionsOf(b).parser # "none"
         /\ Get(returned.envPrintable, a) = "<missing>"
         /\ Get(returned.envPrintable, b) = "\"x\" (default)"

\* The mask function of the entry throws on its default.
DefaultMaskThrows(name) == UsesDefault(name) /\ MaskThrows(name)

C10_FalsyDefaultIsConfigured ==
    \A name \in ConfiguredNames :
        (UsesDefault(name) /\ ~Truthy(OptionsOf(name).default)) =>
            /\ HasKey(printableResult, name) =>
                 Get(printableResult, name) # "<missing>"
            /\ Processed(name) =>
                 /\ HasKey(result, name)
                 /\ Get(result, name) = OptionsOf(name).default
            /\ (pc = "returned" /\ returned.success) =>
                 /\ HasKey(returned.env, name)
                 /\ Get(returned.env, name) = OptionsOf(name).default
            /\ pc = "returned" =>
                 /\ HasKey(returned.envPrintable, name)
                 /\ Get(returned.envPrintable, name) # "<missing>"

\* A Success with an explicit `default: undefined` and an explicit
\* `default: null`.
C10_Witness ==
    /\ pc = "returned"
    /\ returned.success
    /\ \E a, b \in ConfiguredNames :
         /\ UsesDefault(a)
         /\ UsesDefault(b)
         /\ Get(returned.env, a) = UndefinedValue
         /\ Get(returned.env, b) = NullValue
         /\ Get(returned.envPrintable, a) = "undefined (default)"
         /\ Get(returned.envPrintable, b) = "null (default)"

(***************************************************************************)
(* C11..C20                                                                *)
(***************************************************************************)

\* The string ends with the suffix.
EndsWith(text, suffix) ==
    /\ Len(text) >= Len(suffix)
    /\ SubSeq(text, Len(text) - Len(suffix) + 1, Len(text)) = suffix

\* C11: a printable ends with " (default)" iff the entry's value came from
\* the default; every entry of a returned envPrintable that took its default
\* carries the suffix; a present entry whose parser succeeds has the parser's
\* result of the raw value as its value, whatever default it configures.
C11_SuffixIffDefault ==
    \A name \in ConfiguredNames :
        /\ HasKey(printableResult, name) =>
             (EndsWith(Get(printableResult, name), " (default)")
                <=> UsesDefault(name))
        /\ (pc = "returned" /\ UsesDefault(name)) =>
             /\ HasKey(returned.envPrintable, name)
             /\ EndsWith(Get(returned.envPrintable, name), " (default)")
        /\ (pc = "returned" /\ HasKey(returned.envPrintable, name)
               /\ ~UsesDefault(name)) =>
             ~EndsWith(Get(returned.envPrintable, name), " (default)")
        /\ (Processed(name) /\ Present(name) /\ ~ParserThrows(name)) =>
             /\ HasKey(result, name)
             /\ Get(result, name) = ParserOutcome(name).value

\* A returned result where a present entry that configures a default is
\* rendered without suffix and an absent one with it.
C11_Witness ==
    /\ pc = "returned"
    /\ \E a, b \in ConfiguredNames :
         /\ Present(a)
         /\ OptionsOf(a).hasDefault
         /\ OptionsOf(a).parser = "number"
         /\ returned.success
         /\ Get(returned.envPrintable, a) = "7"
         /\ UsesDefault(b)
         /\ Get(returned.envPrintable, b) = "\"x\" (default)"

\* C12: with mask: true, the printable of a resolved entry of a returned
\* result is exactly "<masked>" when the value came from the environment and
\* exactly "<masked> (default)" when it came from the default.
C12_BooleanMaskRendering ==
    pc = "returned" =>
        \A name \in ConfiguredNames :
            OptionsOf(name).mask = "true" =>
                /\ (Present(name) /\ ~ParserThrows(name)) =>
                     /\ HasKey(returned.envPrintable, name)
                     /\ Get(returned.envPrintable, name) = "<masked>"
                /\ UsesDefault(name) =>
                     /\ HasKey(returned.envPrintable, name)
                     /\ Get(returned.envPrintable, name) = "<masked> (default)"

\* The non-blank values a variable is given in the second environment.
OtherRaws == PresentRaws \cup {Raw(<<"4", "2">>)}

\* The values a default is given in the second configuration.
OtherDefaults ==
    {UndefinedValue, NullValue, NumberValue(0), StringValue(<<"x">>),
     StringValue(<<"y">>)}

\* The parser of the entry throws on the raw value.
ParserThrowsOn(name, value) ==
    /\ OptionsOf(name).parser # "none"
    /\ ParserCall(OptionsOf(name).parser, value.s).threw

\* process.env with the variable set to the value.
WithValue(env, name, value) == [env EXCEPT ![name] = value]

\* The configuration with the `default` of the entry replaced by the value.
WithDefault(conf, name, value) ==
    Set(conf, name, [Get(conf, name) EXCEPT !.default = value])

\* C13: for a returned call and a variable configured with mask: true, the
\* call on the environment that differs only in another non-blank value of
\* that variable, the parser succeeding on both, returns the same
\* envPrintable; so does, when the variable is absent, the call on the
\* configuration that differs only in the value of its default.
C13_BooleanMaskHidesValue ==
    pc = "returned" =>
        \A name \in ConfiguredNames :
            OptionsOf(name).mask = "true" =>
                /\ (Present(name) /\ ~ParserThrows(name)) =>
                     \A value \in OtherRaws :
                         ~ParserThrowsOn(name, value) =>
                             LET other == parseEnvironmentVariables(configuration,
                                              WithValue(environment, name, value))
                             IN  /\ ~other.threw
                                 /\ other.returned.envPrintable = returned.envPrintable
                /\ UsesDefault(name) =>
                     \A value \in OtherDefaults :
                         LET other == parseEnvironmentVariables(
                                          WithDefault(configuration, name, value),
                                          environment)
                         IN  /\ ~other.threw
                             /\ other.returned.envPrintable = returned.envPrintable

\* A successful call whose envPrintable shows "<masked>" for a present
\* variable and "<masked> (default)" for an absent one, both with mask: true.
C13_Witness ==
    /\ pc = "returned"
    /\ returned.success
    /\ \E a, b \in ConfiguredNames :
         /\ OptionsOf(a).mask = "true"
         /\ OptionsOf(b).mask = "true"
         /\ Present(a)
         /\ UsesDefault(b)
         /\ Get(returned.envPrintable, a) = "<masked>"
         /\ Get(returned.envPrintable, b) = "<masked> (default)"

\* Whether the call log holds a call made for the entry with the argument.
InvokedWith(calls, name, argument) ==
    \E c \in 1..Len(calls) :
        calls[c].variable = name /\ calls[c].argument = argument

\* C14: in a returned call, the mask function of every entry that resolved
\* (parser result, raw string without parser, default when absent) has been
\* invoked with that value and with nothing else, and when it returned the
\* string s the entry's printable is <masked: "s">, followed by " (default)"
\* when the value came from the default.
C14_MaskFunctionRendering ==
    pc = "returned" =>
        \A name \in ConfiguredNames :
            (IsMaskFunction(OptionsOf(name).mask) /\ ~Missing(name)
                /\ ~ParserThrows(name)) =>
                /\ InvokedWith(maskCalls, name, ResolvedValue(name))
                /\ \A c \in 1..Len(maskCalls) :
                       maskCalls[c].variable = name =>
                           maskCalls[c].argument = ResolvedValue(name)
                /\ ~MaskThrows(name) =>
                     /\ HasKey(returned.envPrintable, name)
                     /\ Get(returned.envPrintable, name) =
                          "<masked: "
                             \o JSONStringify(MaskCall(OptionsOf(name).mask,
                                                       ResolvedValue(name)).value)
                             \o ">"
                             \o (IF UsesDefault(name) THEN " (default)" ELSE "")

\* The values of the `mask` option that do not throw.
QuietMasks == {"none", "false", "true", "redact"}

\* The configuration with the `mask` of every entry replaced.
WithMasks(conf, masks) ==
    [k \in 1..Len(conf) |->
        [key |-> conf[k].key,
         value |-> [conf[k].value EXCEPT !.mask = masks[conf[k].key]]]]

\* C15: when a call succeeds, the call on the configuration that differs only
\* in the mask options (each absent, false, true or a function that does not
\* throw) succeeds with the same env, and env holds the parser's result or the
\* default of each entry, never the mask's rendering of it.
C15_MaskLeavesEnvAlone ==
    (pc = "returned" /\ returned.success) =>
        /\ \A masks \in [ConfiguredNames -> QuietMasks] :
               LET other == parseEnvironmentVariables(
                                WithMasks(configuration, masks), environment)
               IN  /\ ~other.threw
                   /\ other.returned.success
                   /\ other.returned.env = returned.env
        /\ \A name \in ConfiguredNames :
               Get(returned.env, name) = ResolvedValue(name)

\* A successful call with a boolean mask on one entry and a mask function on
\* another, whose env holds the unmasked values.
C15_Witness ==
    /\ pc = "returned"
    /\ returned.success
    /\ \E a, b \in ConfiguredNames :
         /\ OptionsOf(a).mask = "true"
         /\ OptionsOf(b).mask = "redact"
         /\ UsesDefault(b)
         /\ Get(returned.envPrintable, a) = "<masked>"
         /\ Get(returned.envPrintable, b) = "<masked: \"*\"> (default)"
         /\ Get(returned.env, a) = NumberValue(7)
         /\ Get(returned.env, b) = StringValue(<<"x">>)

\* C16: a returned object is either {success: true, env, envPrintable} with
\* a value in env for every configured name, or {success: false,
\* envPrintable} with no env field, whatever entries resolved into the local
\* `result`.
C16_ResultShapes ==
    pc = "returned" =>
        IF returned.success
        THEN /\ ~fail
             /\ returned.hasEnv
             /\ KeySet(returned.env) = ConfiguredNames
             /\ Len(returned.env) = Cardinality(ConfiguredNames)
             /\ returned.envPrintable = printableResult
        ELSE /\ fail
             /\ ~returned.hasEnv
             /\ returned.env = EmptyObject
             /\ returned.envPrintable = printableResult

\* A failed call that returned without env although an entry had resolved
\* into the local `result`.
C16_Witness ==
    /\ pc = "returned"
    /\ ~returned.success
    /\ ~returned.hasEnv
    /\ result # EmptyObject
    /\ returned.envPrintable # EmptyObject

\* The literal of a value: a string double-quoted, a number or boolean as
\* written, null and undefined by name, anything else by its type name.
Literal(value) ==
    CASE value.t \in {"string", "boolean"} -> JSONStringify(value)
      [] value.t = "number" ->
             IF value = NaNValue THEN "NaN" ELSE ToString(value.n)
      [] value.t = "null" -> "null"
      [] value.t = "undefined" -> "undefined"
      [] OTHER -> value.t

\* C17: with no mask configured, the printable of an entry that resolved is
\* the literal of its value (of the parser's result, or of the default, then
\* followed by " (default)").
C17_CanonicalLiteral ==
    \A name \in ConfiguredNames :
        (HasKey(printableResult, name) /\ ~MaskIsTruthy(OptionsOf(name).mask)
            /\ ~Missing(name) /\ ~ParserThrows(name)) =>
            Get(printableResult, name) =
                Literal(ResolvedValue(name))
                    \o (IF UsesDefault(name) THEN " (default)" ELSE "")

\* The configuration the claim describes: one entry for each listed name, in
\* the order of first mention, with an identity parser and nothing else.
RECURSIVE IdentityConfiguration(_)
IdentityConfiguration(names) ==
    IF names = <<>> THEN EmptyObject
    ELSE LET rest == IdentityConfiguration(SubSeq(names, 1, Len(names) - 1))
             name == names[Len(names)]
         IN  IF HasKey(rest, name) THEN rest
             ELSE Append(rest, [key |-> name,
                                value |-> [parser |-> "identity",
                                           hasDefault |-> FALSE,
                                           default |-> UndefinedValue,
                                           mask |-> "none"]])

\* The names listed in the call of requireEnvironmentVariables.
Listed == {environmentVariables[k] : k \in 1..Len(environmentVariables)}

\* C18: requireEnvironmentVariables(n1, ..., nk) returns what
\* parseEnvironmentVariables returns for the configuration of identity
\* parsers without default and mask over the listed names; it succeeds iff
\* every listed variable is present and non-blank, and env then maps each
\* name to its raw string, unchanged.
C18_RequireIsIdentityParse ==
    Done =>
        LET parse == parseEnvironmentVariables(
                         IdentityConfiguration(environmentVariables), environment)
        IN  /\ pc = "returned"
            /\ ~parse.threw
            /\ returned = parse.returned
            /\ returned.success <=> \A name \in Listed : Present(name)
            /\ returned.success =>
                 /\ KeySet(returned.env) = Listed
                 /\ \A name \in Listed :
                        Get(returned.env, name) = StringValue(environment[name].s)

\* requireEnvironmentVariables returned Success with a value that keeps its
\* surrounding white space.
C18_Witness ==
    /\ pc = "returned"
    /\ Len(environmentVariables) = 2
    /\ returned.success
    /\ \E name \in Listed :
         Get(returned.env, name) = StringValue(<<" ", "a", " ">>)

\* The mapping holds a real value and a null or undefined one.
Mixed(mapping) ==
    /\ \E k \in 1..Len(mapping) : mapping[k].value \notin {NullValue, UndefinedValue}
    /\ \E k \in 1..Len(mapping) : mapping[k].value \in {NullValue, UndefinedValue}

\* C19: nonNullable throws whenever its mapping mixes a real value with a
\* null or undefined one, wherever in the key order they stand.
C19_MixedThrows ==
    (combinePc \in {"returned", "threw"} /\ Mixed(environmentVariableMapping))
        => combinePc = "threw"

\* The keys of the mapping whose value is, or is not, null or undefined, in
\* key order.
RECURSIVE KeysWhere(_, _)
KeysWhere(mapping, nullable) ==
    IF mapping = <<>> THEN <<>>
    ELSE LET rest == KeysWhere(Tail(mapping), nullable)
         IN  IF (Head(mapping).value \in {NullValue, UndefinedValue}) = nullable
             THEN <<Head(mapping).key>> \o rest
             ELSE rest

\* C20: the message nonNullable throws names every key holding a real value,
\* then every key holding null or undefined, each list in key order.
C20_MessageNamesEveryKey ==
    combinePc = "threw" =>
        combineError =
            "Mix of non-nullable ("
                \o Join(KeysWhere(environmentVariableMapping, FALSE))
                \o ") and nullable ("
                \o Join(KeysWhere(environmentVariableMapping, TRUE))
                \o ") values"

(***************************************************************************)
(* C21..C30                                                                *)
(***************************************************************************)

\* Every value of the mapping is null or undefined.
AllNullable(mapping) ==
    \A k \in 1..Len(mapping) : mapping[k].value \in {NullValue, UndefinedValue}

\* Every value of the mapping is a real one.
AllReal(mapping) ==
    \A k \in 1..Len(mapping) : mapping[k].value \notin {NullValue, UndefinedValue}

\* The call of nonNullable is over.
CombineDone == combinePc \in {"returned", "threw"}

\* C21: nonNullable returns null, and does not throw, when every value of
\* its mapping is null or undefined.
C21_AllNullableIsNull ==
    (CombineDone /\ AllNullable(environmentVariableMapping)) =>
        /\ combinePc = "returned"
        /\ combined = Null

\* nonNullable returned on a mapping holding both a null and an undefined.
C21_Witness ==
    /\ combinePc = "returned"
    /\ Len(environmentVariableMapping) >= 2
    /\ AllNullable(environmentVariableMapping)
    /\ \E k \in 1..Len(environmentVariableMapping) :
           environmentVariableMapping[k].value = NullValue
    /\ \E k \in 1..Len(environmentVariableMapping) :
           environmentVariableMapping[k].value = UndefinedValue

\* C22 as claimed: nonNullable returns an object with the keys and values of
\* its mapping, and does not throw, when every value is real; false, 0, the
\* empty string and objects are real values.
C22_AllRealIsUnchanged ==
    (CombineDone /\ AllReal(environmentVariableMapping)) =>
        /\ combinePc = "returned"
        /\ combined = Object(environmentVariableMapping)

\* C22 amended: nonNullable returns an object with the keys and values of its
\* mapping, and does not throw, when the mapping has at least one key and
\* every value is real (false, 0, the empty string and objects included);
\* for the mapping without keys it returns null.
C22_NonEmptyAllRealIsUnchanged ==
    (CombineDone /\ AllReal(environmentVariableMapping)) =>
        /\ combinePc = "returned"
        /\ combined = IF environmentVariableMapping = EmptyObject
                      THEN Null
                      ELSE Object(environmentVariableMapping)

\* nonNullable returned on a mapping of falsy real values only.
C22_Witness ==
    /\ combinePc = "returned"
    /\ Len(environmentVariableMapping) = 3
    /\ \A k \in 1..3 : ~Truthy(environmentVariableMapping[k].value)
    /\ AllReal(environmentVariableMapping)
    /\ combined = Object(environmentVariableMapping)

\* The call of the function Mask.url returned is over.
UrlDone == urlPc = "returned"

\* The URL the function was given, as new URL reads it.
GivenUrl ==
    URL(IF url.isString THEN url.string ELSE toString(objects[url.object]))

\* The components of the string the function returned.
Rendered == Components(urlString)

Requested(field) == Includes(maskedFields, field)

AllFields == {UrlFields[k] : k \in 1..Len(UrlFields)}

\* A component replaced by the placeholder, with the delimiter that belongs
\* to the component.
Masked(field) ==
    CASE field = "protocol" -> "*****:"
      [] field = "pathname" -> "/*****"
      [] field = "search" -> "?*****"
      [] field = "hash" -> "#*****"
      [] OTHER -> "*****"

\* C23: when every requested component of the URL is non-empty, the string
\* returned shows the placeholder for each requested component and every
\* other component as it is in the URL.
C23_RequestedAreMasked ==
    (UrlDone /\ \A field \in AllFields : Requested(field) => GivenUrl[field] # "") =>
        \A field \in AllFields :
            Rendered[field] = IF Requested(field) THEN Masked(field)
                              ELSE GivenUrl[field]

Expected(field) ==
    IF Requested(field) /\ GivenUrl[field] # ""
          /\ ~(field = "pathname" /\ GivenUrl.pathname = "/")
    THEN Masked(field)
    ELSE GivenUrl[field]

\* C25: with port requested, on a URL that has a port, the string returned
\* shows the placeholder for the port, and every other component as it is
\* without port requested, whatever those components contain.
C25_OnlyPortReplaced ==
    (UrlDone /\ Requested("port") /\ GivenUrl.port # "") =>
        /\ Rendered.port = "*****"
        /\ \A field \in AllFields \ {"port"} : Rendered[field] = Expected(field)

\* C26: no step of the function changes the URL object it was passed.
C26_ArgumentNotMutated ==
    [][~url.isString => objects'[url.object] = objects[url.object]]_vars

\* The function returned a masked string for a URL object that still has its
\* password.
C26_Witness ==
    /\ UrlDone
    /\ ~url.isString
    /\ Requested("password")
    /\ Requested("hostname")
    /\ objects[url.object].password = "pass"
    /\ objects[url.object].hostname = "localhost"
    /\ Rendered.password = "*****"
    /\ Rendered.hostname = "*****"

Padded(value) ==
    /\ value.s # <<>>
    /\ (Head(value.s) \in WhiteSpace \/ value.s[Len(value.s)] \in WhiteSpace)

\* C27: once the loop is past a present entry whose raw value has leading or
\* trailing white space, its parser has been called with the raw string
\* itself, or, without parser, `result` holds the raw string itself and a
\* printable rendered without mask is the raw string, quoted, white space
\* included.
C27_PresentValueUntrimmed ==
    \A name \in ConfiguredNames :
        (Processed(name) /\ Present(name) /\ Padded(environment[name])) =>
            IF OptionsOf(name).parser # "none"
            THEN /\ InvokedWith(parserCalls, name, environment[name].s)
                 /\ \A c \in 1..Len(parserCalls) :
                        parserCalls[c].variable = name =>
                            parserCalls[c].argument = environment[name].s
            ELSE /\ Get(result, name) = StringValue(environment[name].s)
                 /\ (HasKey(printableResult, name)
                        /\ ~MaskIsTruthy(OptionsOf(name).mask)) =>
                      Get(printableResult, name) =
                          "\"" \o Escaped(environment[name].s) \o "\""
                 /\ (pc = "returned" /\ returned.success) =>
                      Get(returned.env, name) = StringValue(environment[name].s)

\* A successful call on " a " without parser, and a call whose parser got
\* " a ".
C27_Witness ==
    /\ pc = "returned"
    /\ returned.success
    /\ \E a, b \in ConfiguredNames :
         /\ environment[a] = Raw(<<" ", "a", " ">>)
         /\ environment[b] = Raw(<<" ", "a", " ">>)
         /\ OptionsOf(a).parser = "none"
         /\ OptionsOf(a).mask = "none"
         /\ OptionsOf(b).parser = "parseInt"
         /\ Get(returned.env, a) = StringValue(<<" ", "a", " ">>)
         /\ Get(returned.envPrintable, a) = "\" a \""
         /\ InvokedWith(parserCalls, b, <<" ", "a", " ">>)

\* The listing the claim describes, written from the first entry on: the
\* entry, then the separator and the listing of the rest when there is one.
RECURSIVE Listing(_, _, _)
Listing(entries, assignment, separator) ==
    IF entries = <<>> THEN ""
    ELSE Head(entries).key \o assignment \o Head(entries).value
            \o (IF Len(entries) > 1
                THEN separator \o Listing(Tail(entries), assignment, separator)
                ELSE "")

RECURSIVE TotalLength(_)
TotalLength(entries) ==
    IF entries = <<>> THEN 0
    ELSE Len(Head(entries).key) + Len(Head(entries).value)
            + TotalLength(Tail(entries))

\* C28: oneliner returns the entries of envPrintable as name=value joined by
\* ", " and multiLine as name = value joined by a newline, one entry per key
\* in key order, the values as they are.
C28_FormatterListsEntries ==
    formatterPc = "returned" =>
        LET entries == formatterResult.envPrintable
            n == Len(entries)
        IN  /\ formatted.oneliner = Listing(entries, "=", ", ")
            /\ formatted.multiLine = Listing(entries, " = ", "\n")
            /\ n > 0 =>
                 /\ Len(formatted.oneliner) = TotalLength(entries) + n + 2 * (n - 1)
                 /\ Len(formatted.multiLine) = TotalLength(entries) + 3 * n + (n - 1)

\* Both formatters returned on the mapping of the tests' shape: two entries.
C28_Witness ==
    /\ formatterPc = "returned"
    /\ formatterResult.envPrintable =
         <<[key |-> "A", value |-> "\"a\""], [key |-> "B", value |-> "7"]>>
    /\ formatted.oneliner = "A=\"a\", B=7"
    /\ formatted.multiLine = "A = \"a\"\nB = 7"

\* The number of calls the log holds for the entry.
CallCount(calls, name) ==
    Cardinality({c \in 1..Len(calls) : calls[c].variable = name})

\* C29: when the call is over the loop has passed every configured name
\* once, the parser of every entry that has one has been invoked once if the
\* raw value is present and not blank and never otherwise, and a mask
\* function at most once per entry.
C29_EachEntryVisitedOnce ==
    Done =>
        /\ i = Len(configuration) + 1
        /\ \A name \in ConfiguredNames :
               /\ CallCount(parserCalls, name) =
                    IF Present(name) /\ OptionsOf(name).parser # "none"
                    THEN 1 ELSE 0
               /\ CallCount(maskCalls, name) <= 1

====
